---- MODULE Spec2Model ----
(***************************************************************************)
(* A model of the feed-scraper's record store (DB_FILE), its output        *)
(* artifacts (FEEDS_DIR/<name>.xml) and the operations of the scraper      *)
(* package that read and write them: add_feed, delete_feed,                *)
(* update_feed_data, update_feed and update_all_feeds; and of the          *)
(* functions that touch neither: fetch_articles, generate_rss,             *)
(* parse_error_message, discover_rss_feeds, generate_opml and parse_opml.  *)
(***************************************************************************)
EXTENDS Integers, Sequences, FiniteSets, TLC

(***************************************************************************)
(* Bounds of the model.                                                    *)
(***************************************************************************)
MaxArticles == 1

(***************************************************************************)
(* The values the calls take their arguments from, and the values          *)
(* datetime.now() returns.                                                 *)
(***************************************************************************)
Names == {"alpha", "beta"}
Urls == {"https://a.example"}
Times == {1}
CssSelectors == {""}
Descriptions == {""}

(***************************************************************************)
(* Python's None, for the string-valued and the timestamp-valued fields,   *)
(* and the marker of a key that is absent from a dict.                     *)
(***************************************************************************)
None == "None"
NoTime == 0
Absent == "<absent>"
NoFile == [exists |-> FALSE]

Min(a, b) == IF a <= b THEN a ELSE b

(***************************************************************************)
(* Exceptions, as the classifier sees them: str(e) is a text of len        *)
(* characters whose first 100 characters are head, and markers is the set  *)
(* of substrings the classifier looks for that occur in it.                *)
(***************************************************************************)
NoError == [markers |-> {}, text |-> "", len |-> 0, head |-> ""]

RetryConnectionError ==
    [markers |-> {"RetryError", "ConnectionError"},
     text |-> "RetryError[<Future at 0x7f state=finished raised ConnectionError>]",
     len |-> 66,
     head |-> "RetryError[<Future at 0x7f state=finished raised ConnectionError>]"]

RssValueError ==
    [markers |-> {},
     text |-> "Required fields not set",
     len |-> 23,
     head |-> "Required fields not set"]

FetchErrors == {RetryConnectionError}
SerializerErrors == {RssValueError}

ErrorTextLimit == 100

Has(e, m) == m \in e.markers

\* the category strings are the source's, with umlauts written as ue

parse_error_message(e) ==
    IF Has(e, "RetryError") THEN
        IF Has(e, "ConnectionError") THEN "Seite nicht erreichbar (Verbindung fehlgeschlagen)"
        ELSE IF Has(e, "SSLError") THEN "SSL-Zertifikatsfehler"
        ELSE IF Has(e, "HTTPError") THEN
            IF Has(e, "404") THEN "Nicht gefunden (404)"
            ELSE IF Has(e, "401") \/ Has(e, "403") THEN "Zugriff verweigert (401/403)"
            ELSE IF Has(e, "500") \/ Has(e, "502") \/ Has(e, "503") THEN "Serverfehler"
            ELSE "HTTP-Fehler"
        ELSE IF Has(e, "Timeout") \/ Has(e, "timed out") THEN "Zeitueberschreitung"
        ELSE IF Has(e, "MissingSchema") THEN "Ungueltige URL (fehlendes https://)"
        ELSE "Verbindungsfehler"
    ELSE IF Has(e, "ConnectionError") THEN "Seite nicht erreichbar"
    ELSE IF Has(e, "SSLError") \/ Has(e, "SSL") THEN "SSL-Zertifikatsfehler"
    ELSE IF Has(e, "HTTPError") THEN
        IF Has(e, "404") THEN "Nicht gefunden (404)" ELSE "HTTP-Fehler"
    ELSE IF Has(e, "Timeout") \/ Has(e, "timed out") THEN "Zeitueberschreitung"
    ELSE IF Has(e, "MissingSchema") THEN "Ungueltige URL"
    ELSE IF e.len <= ErrorTextLimit THEN e.text ELSE e.head

(***************************************************************************)
(* Articles and the RSS document generate_rss writes.                      *)
(***************************************************************************)
Article(i) ==
    [title |-> "Article " \o ToString(i),
     url |-> "https://a.example/story/" \o ToString(i),
     content |-> "Text " \o ToString(i)]

Page(n) == [i \in 1..n |-> Article(i)]

RssItemLimit == 30

OrElse(a, b) == IF a # "" THEN a ELSE b

RssItem(feed, article) ==
    [title |-> OrElse(article.title, "Ohne Titel"),
     link |-> OrElse(article.url, feed.url),
     description |-> article.content]

\* generate_rss that writes an item for every article
RssDocument_uncut(feed, articles) ==
    LET arts == IF articles = <<>>
                THEN <<[title |-> "Keine Artikel gefunden",
                        url |-> feed.url,
                        content |-> "Der Feed konnte keine Artikel von der Webseite extrahieren."]>>
                ELSE articles
    IN [exists |-> TRUE,
        title |-> feed.name,
        description |-> OrElse(feed.description, OrElse(feed.url, feed.name)),
        link |-> feed.url,
        self |-> feed.name,
        items |-> [i \in 1..Len(arts) |-> RssItem(feed, arts[i])]]

\* generate_rss without the placeholder article
RssDocument_no_placeholder(feed, articles) ==
    LET shown == SubSeq(articles, 1, Min(RssItemLimit, Len(articles)))
    IN [exists |-> TRUE,
        title |-> feed.name,
        description |-> OrElse(feed.description, OrElse(feed.url, feed.name)),
        link |-> feed.url,
        self |-> feed.name,
        items |-> [i \in 1..Len(shown) |-> RssItem(feed, shown[i])]]

RssDocument(feed, articles) ==
    LET arts == IF articles = <<>>
                THEN <<[title |-> "Keine Artikel gefunden",
                        url |-> feed.url,
                        content |-> "Der Feed konnte keine Artikel von der Webseite extrahieren."]>>
                ELSE articles
        shown == SubSeq(arts, 1, Min(RssItemLimit, Len(arts)))
    IN [exists |-> TRUE,
        title |-> feed.name,
        description |-> OrElse(feed.description, OrElse(feed.url, feed.name)),
        link |-> feed.url,
        self |-> feed.name,
        items |-> [i \in 1..Len(shown) |-> RssItem(feed, shown[i])]]

VARIABLES
    db,         \* the "feeds" list of DB_FILE
    files,      \* FEEDS_DIR: name |-> the document in <name>.xml, or NoFile
    ua_pc,      \* update_all_feeds: "idle", "loop" or "done"
    ua_feeds,   \* update_all_feeds: the names of the list it loaded
    ua_env,     \* update_all_feeds: what fetch and serializer did, per feed
    results,    \* update_all_feeds: its results list
    uf,         \* an update_feed call between its load and its save
    ret         \* the last call: operation, arguments and outcome

vars == <<db, files, ua_pc, ua_feeds, ua_env, results, uf, ret>>

(***************************************************************************)
(* Helpers over the loaded list.                                           *)
(***************************************************************************)
Indexes(feeds, name) == {i \in 1..Len(feeds) : feeds[i].name = name}

\* next((f for f in feeds if f["name"] == name), None), as an index; 0 is None
FirstIndex(feeds, name) ==
    IF Indexes(feeds, name) = {} THEN 0
    ELSE CHOOSE i \in Indexes(feeds, name) : \A j \in Indexes(feeds, name) : i <= j

\* [f for f in feeds if f["name"] != name]
RECURSIVE Without(_, _)
Without(feeds, name) ==
    IF feeds = <<>> THEN <<>>
    ELSE IF Head(feeds).name = name THEN Without(Tail(feeds), name)
    ELSE <<Head(feeds)>> \o Without(Tail(feeds), name)

StoredNames == {db[i].name : i \in 1..Len(db)}

\* what the environment did in one update_feed call; called is FALSE when
\* the call raised before it reached fetch_articles
NotFetched == [fetch |-> NoError, n |-> 0, rss |-> NoError, called |-> FALSE]

Call(op, name, out) ==
    [op |-> op, name |-> name, new_name |-> None, out |-> out,
     caller |-> "api", env |-> NotFetched]

\* no update_feed call has loaded the list without having saved it
NoUpdate == [pc |-> "idle", name |-> None, loaded |-> <<>>, feeds |-> <<>>]

ua_vars == <<ua_pc, ua_feeds, ua_env, results, uf>>

Init ==
    /\ db = <<>>
    /\ files = [n \in Names |-> NoFile]
    /\ ua_pc = "idle"
    /\ ua_feeds = <<>>
    /\ ua_env = <<>>
    /\ results = <<>>
    /\ uf = NoUpdate
    /\ ret = Call("init", None, "ok")

(***************************************************************************)
(* add_feed, as the API calls it: without a normalize_func, so without the *)
(* URL comparison.                                                         *)
(***************************************************************************)
NewFeed(name, url, css_selector, description, now) ==
    [name |-> name,
     url |-> url,
     css_selector |-> css_selector,
     description |-> description,
     created |-> now,
     last_update |-> NoTime,
     last_status |-> None,
     article_count |-> 0,
     last_error |-> Absent]

\* add_feed without the loop that looks for the name
add_feed_unchecked(name, url, css_selector, description, now) ==
    /\ db' = Append(db, NewFeed(name, url, css_selector, description, now))
    /\ ret' = Call("add_feed", name, "ok")
    /\ UNCHANGED files

add_feed(name, url, css_selector, description, now) ==
    IF Indexes(db, name) # {}
    THEN /\ ret' = Call("add_feed", name, "ValueError")
         /\ UNCHANGED <<db, files>>
    ELSE /\ db' = Append(db, NewFeed(name, url, css_selector, description, now))
         /\ ret' = Call("add_feed", name, "ok")
         /\ UNCHANGED files

AddFeed ==
    \E name \in Names, url \in Urls, css \in CssSelectors,
       description \in Descriptions, now \in Times :
        /\ add_feed(name, url, css, description, now)
        /\ UNCHANGED ua_vars

(***************************************************************************)
(* delete_feed                                                             *)
(***************************************************************************)
\* delete_feed without the comparison of the two lengths
delete_feed_always_true(name) ==
    /\ db' = Without(db, name)
    /\ files' = [files EXCEPT ![name] = NoFile]
    /\ ret' = Call("delete_feed", name, "True")

\* delete_feed without the os.remove
delete_feed_keeps_file(name) ==
    LET feeds == Without(db, name) IN
    IF Len(feeds) = Len(db)
    THEN /\ ret' = Call("delete_feed", name, "False")
         /\ UNCHANGED <<db, files>>
    ELSE /\ db' = feeds
         /\ ret' = Call("delete_feed", name, "True")
         /\ UNCHANGED files

delete_feed(name) ==
    LET feeds == Without(db, name) IN
    IF Len(feeds) = Len(db)
    THEN /\ ret' = Call("delete_feed", name, "False")
         /\ UNCHANGED <<db, files>>
    ELSE /\ db' = feeds
         /\ files' = [files EXCEPT ![name] = NoFile]
         /\ ret' = Call("delete_feed", name, "True")

DeleteFeed ==
    \E name \in Names :
        /\ delete_feed(name)
        /\ UNCHANGED ua_vars

(***************************************************************************)
(* update_feed_data; new_name and url may be None, and an empty string     *)
(* counts as None (Python truthiness).                                     *)
(***************************************************************************)
Truthy(s) == s # None /\ s # ""

\* a copy in place of the rename: the old file stays
RenameFile_copy(fs, old, new) ==
    IF fs[old].exists
    THEN [fs EXCEPT ![new] = fs[old]]
    ELSE fs

\* no os.rename at all: the file stays under the old name
RenameFile_skipped(fs, old, new) == fs

\* os.rename(old_xml, new_xml) when old_xml exists: the target is replaced
RenameFile(fs, old, new) ==
    IF fs[old].exists
    THEN [fs EXCEPT ![new] = fs[old], ![old] = NoFile]
    ELSE fs

\* update_feed_data that renames the file before it looks for the new name
update_feed_data_rename_first(name, new_name, url, css_selector, description) ==
    LET i == FirstIndex(db, name)
        renaming == Truthy(new_name) /\ new_name # name
        call == [Call("update_feed_data", name, "ok") EXCEPT !.new_name = new_name]
    IN
    IF i = 0
    THEN /\ ret' = [call EXCEPT !.out = "ValueError: nicht gefunden"]
         /\ UNCHANGED <<db, files>>
    ELSE IF renaming /\ Indexes(db, new_name) # {}
    THEN /\ ret' = [call EXCEPT !.out = "ValueError: existiert bereits"]
         /\ files' = RenameFile(files, name, new_name)
         /\ UNCHANGED db
    ELSE /\ db' = [db EXCEPT ![i] =
                     [@ EXCEPT !.name = IF renaming THEN new_name ELSE @,
                               !.url = IF Truthy(url) THEN url ELSE @,
                               !.css_selector = css_selector,
                               !.description = description]]
         /\ files' = IF renaming THEN RenameFile(files, name, new_name) ELSE files
         /\ ret' = call

\* update_feed_data that starts the definition's status over
update_feed_data_resets(name, new_name, url, css_selector, description) ==
    LET i == FirstIndex(db, name)
        renaming == Truthy(new_name) /\ new_name # name
        call == [Call("update_feed_data", name, "ok") EXCEPT !.new_name = new_name]
    IN
    IF i = 0
    THEN /\ ret' = [call EXCEPT !.out = "ValueError: nicht gefunden"]
         /\ UNCHANGED <<db, files>>
    ELSE IF renaming /\ Indexes(db, new_name) # {}
    THEN /\ ret' = [call EXCEPT !.out = "ValueError: existiert bereits"]
         /\ UNCHANGED <<db, files>>
    ELSE /\ db' = [db EXCEPT ![i] =
                     [@ EXCEPT !.name = IF renaming THEN new_name ELSE @,
                               !.url = IF Truthy(url) THEN url ELSE @,
                               !.css_selector = css_selector,
                               !.description = description,
                               !.last_update = NoTime,
                               !.last_status = None,
                               !.article_count = 0]]
         /\ files' = IF renaming THEN RenameFile(files, name, new_name) ELSE files
         /\ ret' = call

update_feed_data(name, new_name, url, css_selector, description) ==
    LET i == FirstIndex(db, name)
        renaming == Truthy(new_name) /\ new_name # name
        call == [Call("update_feed_data", name, "ok") EXCEPT !.new_name = new_name]
    IN
    IF i = 0
    THEN /\ ret' = [call EXCEPT !.out = "ValueError: nicht gefunden"]
         /\ UNCHANGED <<db, files>>
    ELSE IF renaming /\ Indexes(db, new_name) # {}
    THEN /\ ret' = [call EXCEPT !.out = "ValueError: existiert bereits"]
         /\ UNCHANGED <<db, files>>
    ELSE /\ db' = [db EXCEPT ![i] =
                     [@ EXCEPT !.name = IF renaming THEN new_name ELSE @,
                               !.url = IF Truthy(url) THEN url ELSE @,
                               !.css_selector = css_selector,
                               !.description = description]]
         /\ files' = IF renaming THEN RenameFile(files, name, new_name) ELSE files
         /\ ret' = call

UpdateFeedData ==
    \E name \in Names, new_name \in Names \cup {None}, url \in Urls \cup {None},
       css \in CssSelectors, description \in Descriptions :
        /\ update_feed_data(name, new_name, url, css, description)
        /\ UNCHANGED ua_vars

(***************************************************************************)
(* update_feed.  The environment decides what fetch_articles and the       *)
(* serializer do: outcome.fetch is the exception fetch_articles raises     *)
(* (NoError: it returns Page(outcome.n)), outcome.rss the exception         *)
(* generate_rss raises before it writes the file (NoError: it writes).     *)
(***************************************************************************)
Outcomes ==
    {[fetch |-> NoError, n |-> n, rss |-> NoError] : n \in 0..MaxArticles}
    \cup {[fetch |-> e, n |-> 0, rss |-> NoError] : e \in FetchErrors}
    \cup {[fetch |-> NoError, n |-> n, rss |-> e] : n \in 0..MaxArticles, e \in SerializerErrors}

\* the feed dict after the try block ran to its end
RefreshedOk(feed, outcome, now) ==
    [feed EXCEPT !.last_update = now,
                 !.last_status = "success",
                 !.article_count = Len(Page(outcome.n))]

\* the feed dict after the except block: what the try block had assigned
\* before the exception stays assigned
RefreshedError(feed, outcome, now) ==
    LET reached == IF outcome.fetch # NoError THEN feed
                   ELSE RefreshedOk(feed, outcome, now)
        e == IF outcome.fetch # NoError THEN outcome.fetch ELSE outcome.rss
    IN [reached EXCEPT !.last_update = now,
                       !.last_status = "error",
                       !.last_error = parse_error_message(e)]

\* update_feed with generate_rss moved after the try block: a failed
\* refresh writes the document of an empty article list
update_feed_clobber(feeds, fs, name, outcome, now) ==
    LET i == FirstIndex(feeds, name) IN
    IF i = 0
    THEN [raised |-> TRUE, feed |-> NewFeed(None, None, "", "", NoTime),
          db |-> feeds, files |-> fs]
    ELSE LET failed == outcome.fetch # NoError \/ outcome.rss # NoError
             feed == IF failed THEN RefreshedError(feeds[i], outcome, now)
                     ELSE RefreshedOk(feeds[i], outcome, now)
         IN [raised |-> FALSE,
             feed |-> feed,
             db |-> [feeds EXCEPT ![i] = feed],
             files |-> [fs EXCEPT ![name] =
                          RssDocument(feed, IF failed THEN <<>> ELSE Page(outcome.n))]]

\* update_feed that creates the definition it does not find
update_feed_upsert(feeds, fs, name, outcome, now) ==
    LET i == FirstIndex(feeds, name)
        all == IF i = 0 THEN Append(feeds, NewFeed(name, CHOOSE u \in Urls : TRUE, "", "", now))
               ELSE feeds
        k == FirstIndex(all, name)
        failed == outcome.fetch # NoError \/ outcome.rss # NoError
        feed == IF failed THEN RefreshedError(all[k], outcome, now)
                ELSE RefreshedOk(all[k], outcome, now)
    IN [raised |-> FALSE,
        feed |-> feed,
        db |-> [all EXCEPT ![k] = feed],
        files |-> IF failed THEN fs
                  ELSE [fs EXCEPT ![name] = RssDocument(feed, Page(outcome.n))]]

\* update_feed(name) on the store (feeds, fs): what it raises, returns, saves
\* and writes
update_feed(feeds, fs, name, outcome, now) ==
    LET i == FirstIndex(feeds, name) IN
    IF i = 0
    THEN [raised |-> TRUE, feed |-> NewFeed(None, None, "", "", NoTime),
          db |-> feeds, files |-> fs]
    ELSE LET failed == outcome.fetch # NoError \/ outcome.rss # NoError
             feed == IF failed THEN RefreshedError(feeds[i], outcome, now)
                     ELSE RefreshedOk(feeds[i], outcome, now)
         IN [raised |-> FALSE,
             feed |-> feed,
             db |-> [feeds EXCEPT ![i] = feed],
             files |-> IF failed THEN fs
                       ELSE [fs EXCEPT ![name] =
                               RssDocument(RefreshedOk(feeds[i], outcome, now),
                                           Page(outcome.n))]]

Env(r, outcome) ==
    IF r.raised THEN NotFetched
    ELSE [fetch |-> outcome.fetch, n |-> outcome.n, rss |-> outcome.rss, called |-> TRUE]

RefreshCall(name, r, outcome, caller) ==
    [Call("update_feed", name, IF r.raised THEN "ValueError: nicht gefunden" ELSE "ok")
        EXCEPT !.caller = caller, !.env = Env(r, outcome)]

UpdateFeed ==
    \E name \in Names, outcome \in Outcomes, now \in Times :
        LET r == update_feed(db, files, name, outcome, now) IN
        /\ db' = r.db
        /\ files' = r.files
        /\ ret' = RefreshCall(name, r, outcome, "api")
        /\ UNCHANGED ua_vars

(***************************************************************************)
(* update_all_feeds, one step per statement that touches the store: the    *)
(* load, then one update_feed call per loaded feed (the one-second sleep   *)
(* between two calls lets the calls of other tasks in), then the return.   *)
(***************************************************************************)
ErrorResult(name) ==
    [name |-> name, status |-> "error",
     error |-> "Feed '" \o name \o "' nicht gefunden"]

UpdateAllLoad ==
    /\ ua_pc = "idle"
    /\ ua_feeds' = [i \in 1..Len(db) |-> db[i].name]
    /\ ua_env' = <<>>
    /\ results' = <<>>
    /\ ua_pc' = IF db = <<>> THEN "done" ELSE "loop"
    /\ ret' = Call("update_all_feeds", None, "running")
    /\ UNCHANGED <<db, files, uf>>

\* update_all_feeds without its try/except: a raising update_feed ends the
\* loop
UpdateAllStep_raise_aborts ==
    /\ ua_pc = "loop"
    /\ \E outcome \in Outcomes, now \in Times :
        LET name == ua_feeds[Len(results) + 1]
            r == update_feed(db, files, name, outcome, now)
        IN
        /\ db' = r.db
        /\ files' = r.files
        /\ results' = IF r.raised THEN results ELSE Append(results, r.feed)
        /\ ua_env' = IF r.raised THEN ua_env ELSE Append(ua_env, Env(r, outcome))
        /\ ua_pc' = IF r.raised \/ Len(results) + 1 = Len(ua_feeds)
                    THEN "done" ELSE "loop"
        /\ ret' = RefreshCall(name, r, outcome, "update_all_feeds")
    /\ UNCHANGED <<ua_feeds, uf>>

\* update_all_feeds that stops at the first feed whose refresh failed
UpdateAllStep_error_aborts ==
    /\ ua_pc = "loop"
    /\ \E outcome \in Outcomes, now \in Times :
        LET name == ua_feeds[Len(results) + 1]
            r == update_feed(db, files, name, outcome, now)
        IN
        /\ db' = r.db
        /\ files' = r.files
        /\ results' = Append(results, IF r.raised THEN ErrorResult(name) ELSE r.feed)
        /\ ua_env' = Append(ua_env, Env(r, outcome))
        /\ ua_pc' = IF r.feed.last_status = "error" \/ Len(results) + 1 = Len(ua_feeds)
                    THEN "done" ELSE "loop"
        /\ ret' = RefreshCall(name, r, outcome, "update_all_feeds")
    /\ UNCHANGED <<ua_feeds, uf>>

UpdateAllStep ==
    /\ ua_pc = "loop"
    /\ \E outcome \in Outcomes, now \in Times :
        LET name == ua_feeds[Len(results) + 1]
            r == update_feed(db, files, name, outcome, now)
        IN
        /\ db' = r.db
        /\ files' = r.files
        /\ results' = Append(results, IF r.raised THEN ErrorResult(name) ELSE r.feed)
        /\ ua_env' = Append(ua_env, Env(r, outcome))
        /\ ua_pc' = IF Len(results) + 1 = Len(ua_feeds) THEN "done" ELSE "loop"
        /\ ret' = RefreshCall(name, r, outcome, "update_all_feeds")
    /\ UNCHANGED <<ua_feeds, uf>>

UpdateAllReturn ==
    /\ ua_pc = "done"
    /\ ua_pc' = "idle"
    /\ ua_feeds' = <<>>
    /\ ua_env' = <<>>
    /\ results' = <<>>
    /\ ret' = Call("update_all_feeds", None, "returned")
    /\ UNCHANGED <<db, files, uf>>

(***************************************************************************)
(* Spec: the calls one at a time.  The API handlers are coroutines that    *)
(* never yield while a scraper call runs, so API calls do not overlap;     *)
(* here update_all_feeds runs to its return without another call between   *)
(* its steps either.                                                       *)
(***************************************************************************)
Idle == ua_pc = "idle"

Next ==
    \/ Idle /\ AddFeed
    \/ Idle /\ DeleteFeed
    \/ Idle /\ UpdateFeedData
    \/ Idle /\ UpdateFeed
    \/ UpdateAllLoad
    \/ UpdateAllStep
    \/ UpdateAllReturn

Spec == Init /\ [][Next]_vars

(***************************************************************************)
(* ConcSpec: update_all_feeds on the scheduler thread (run_scheduler),     *)
(* with add and delete calls of the API landing between its update_feed    *)
(* calls.                                                                  *)
(***************************************************************************)
NextConc ==
    \/ AddFeed
    \/ DeleteFeed
    \/ UpdateAllLoad
    \/ UpdateAllStep
    \/ UpdateAllReturn

ConcSpec == Init /\ [][NextConc]_vars

(***************************************************************************)
(* Properties.                                                             *)
(***************************************************************************)
\* the stored definition of that name
Feed(name) == db[FirstIndex(db, name)]

Refreshed == ret.op = "update_feed" /\ ret.env.called
RefreshFailed == Refreshed /\ (ret.env.fetch # NoError \/ ret.env.rss # NoError)
RaisedError == IF ret.env.fetch # NoError THEN ret.env.fetch ELSE ret.env.rss

C1_Unique == \A i, j \in 1..Len(db) : db[i].name = db[j].name => i = j

C1_DuplicateAdd ==
    (ret'.op = "add_feed" /\ ret'.name \in StoredNames)
        => (ret'.out = "ValueError" /\ db' = db)

\* C1: no two stored definitions ever share a name, and an add_feed call
\* with a stored name raises ValueError and leaves the stored list as it was.
C1_NamesUnique == []C1_Unique /\ [][C1_DuplicateAdd]_vars

\* a duplicate add was rejected while two definitions are stored, one of
\* them renamed by update_feed_data before
C1_Witness ==
    /\ ret.op = "add_feed"
    /\ ret.out = "ValueError"
    /\ Len(db) = 2

\* C2: in every stored definition last_error is present only when
\* last_status is "error".
C2_LastErrorOnlyOnError ==
    \A i \in 1..Len(db) : db[i].last_error # Absent => db[i].last_status = "error"

\* C3: after a refresh that failed, the stored definition has last_status
\* "error", article_count 0 and last_error the classifier's output.
C3_FailedRefreshStatus ==
    RefreshFailed =>
        /\ Feed(ret.name).last_status = "error"
        /\ Feed(ret.name).article_count = 0
        /\ Feed(ret.name).last_error = parse_error_message(RaisedError)

C4_FailedFetch ==
    (ret'.op = "update_feed" /\ ret'.env.called /\ ret'.env.fetch # NoError)
        => files' = files

\* C4: a refresh whose fetch fails leaves every output artifact as it was:
\* none written, none deleted, none altered.
C4_FailedFetchKeepsArtifact == [][C4_FailedFetch]_vars

\* a fetch failed for a feed whose artifact an earlier refresh wrote
C4_Witness ==
    /\ Refreshed
    /\ ret.env.fetch # NoError
    /\ files[ret.name].exists
    /\ Feed(ret.name).last_status = "error"

C5_Shape ==
    /\ Len(results) = Len(ua_env)
    /\ Len(results) <= Len(ua_feeds)
    /\ \A i \in 1..Len(results) : results[i].name = ua_feeds[i]
    /\ ua_pc = "done" => Len(results) = Len(ua_feeds)
    /\ ua_pc = "loop" => Len(results) < Len(ua_feeds)

C5_Load ==
    (ua_pc = "idle" /\ ua_pc' # "idle")
        => (Len(ua_feeds') = Len(db) /\ \A i \in 1..Len(db) : ua_feeds'[i] = db[i].name)

C5_OneAtATime ==
    results' # results /\ ua_pc = "loop"
        => /\ Len(results') = Len(results) + 1
           /\ SubSeq(results', 1, Len(results)) = results
           /\ ret'.env.called =>
                db'[FirstIndex(db', ua_feeds[Len(results')])] = results'[Len(results')]

\* C5: update_all_feeds returns one result per loaded definition, in the
\* order of the loaded list, and takes the feeds one after another: the
\* result of feed i is recorded, and its status saved, in the step before
\* feed i+1 is fetched, whether a refresh succeeds, fails or raises.
C5_OneResultPerFeed == []C5_Shape /\ [][C5_Load]_vars /\ [][C5_OneAtATime]_vars

\* a run over two feeds ended with one update_feed having raised (the feed
\* was deleted meanwhile) and one having fetched
C5_Witness ==
    /\ ua_pc = "done"
    /\ Len(ua_feeds) = 2
    /\ \E i \in 1..2 : ~ua_env[i].called
    /\ \E i \in 1..2 : ua_env[i].called

IsError(r) ==
    IF "status" \in DOMAIN r THEN r.status = "error" ELSE r.last_status = "error"

\* of the feeds of the run, exactly feed k was unreachable
OnlyUnreachable(k) ==
    /\ ua_env[k].called
    /\ ua_env[k].fetch # NoError
    /\ \A j \in 1..Len(ua_env) : j # k =>
        ua_env[j].called /\ ua_env[j].fetch = NoError /\ ua_env[j].rss = NoError

\* C6: when exactly one feed of an update_all_feeds run is unreachable, the
\* run returns N results of which exactly that one is marked as an error,
\* and every other feed has the status and artifact of its own refresh.
C6_FailureIsolated ==
    \A k \in 1..Len(ua_env) :
        (ua_pc = "done" /\ OnlyUnreachable(k)) =>
            /\ Len(results) = Len(ua_feeds)
            /\ {i \in 1..Len(results) : IsError(results[i])} = {k}
            /\ \A j \in 1..Len(ua_feeds) : j # k =>
                /\ Feed(ua_feeds[j]).last_status = "success"
                /\ Feed(ua_feeds[j]).article_count = ua_env[j].n
                /\ files[ua_feeds[j]] = RssDocument(Feed(ua_feeds[j]), Page(ua_env[j].n))

\* a run over two feeds, the first unreachable, the second with an article
C6_Witness ==
    /\ ua_pc = "done"
    /\ Len(ua_feeds) = 2
    /\ OnlyUnreachable(1)
    /\ ua_env[2].n = 1

C7_Unknown ==
    (ret'.op = "update_feed" /\ ret'.name \notin StoredNames)
        => /\ ret'.out = "ValueError: nicht gefunden"
           /\ ~ret'.env.called
           /\ db' = db
           /\ files' = files

\* C7: update_feed of a name that is not stored raises the not-found
\* error, fetches nothing, writes no artifact and leaves the store as it was.
C7_UnknownRefreshRejected == [][C7_Unknown]_vars

\* the not-found error, raised while another definition is stored
C7_Witness ==
    /\ ret.op = "update_feed"
    /\ ret.out = "ValueError: nicht gefunden"
    /\ Len(db) = 1
    /\ ret.name \notin StoredNames

C8_Unknown ==
    (ret'.op = "delete_feed" /\ ret'.name \notin StoredNames)
        => (ret'.out = "False" /\ db' = db /\ files' = files)

\* C8: delete_feed of a name that is not stored returns False and changes
\* neither the store nor any artifact.
C8_UnknownDeleteNoEffect == [][C8_Unknown]_vars

\* False was returned while a definition and its artifact exist
C8_Witness ==
    /\ ret.op = "delete_feed"
    /\ ret.out = "False"
    /\ Len(db) = 1
    /\ files[db[1].name].exists

C9_Stored ==
    (ret'.op = "delete_feed" /\ ret'.name \in StoredNames)
        => /\ ret'.out = "True"
           /\ ret'.name \notin {db'[i].name : i \in 1..Len(db')}
           /\ ~files'[ret'.name].exists
           /\ {db'[i] : i \in 1..Len(db')}
                = {db[i] : i \in {j \in 1..Len(db) : db[j].name # ret'.name}}
           /\ Len(db') = Len(db) - 1
           /\ \A n \in Names \ {ret'.name} : files'[n] = files[n]

\* C9: delete_feed of a stored name returns True, and afterwards no
\* definition and no artifact of that name exists and every other definition
\* (and artifact) is as before.
C9_DeleteRemoves == [][C9_Stored]_vars

\* True was returned and another definition, with its artifact, is left
C9_Witness ==
    /\ ret.op = "delete_feed"
    /\ ret.out = "True"
    /\ Len(db) = 1
    /\ files[db[1].name].exists
    /\ ~files[ret.name].exists

C10_Rename ==
    (/\ ret'.op = "update_feed_data"
     /\ ret'.name \in StoredNames
     /\ ret'.new_name \in Names \ StoredNames)
        => /\ ret'.out = "ok"
           /\ ~files'[ret'.name].exists
           /\ files[ret'.name].exists => files'[ret'.new_name] = files[ret'.name]
           /\ ret'.new_name \in {db'[i].name : i \in 1..Len(db')}
           /\ ret'.name \notin {db'[i].name : i \in 1..Len(db')}

\* C10: a rename to an unused name leaves no artifact under the old name,
\* moves an existing artifact unaltered to the new name, and the stored
\* definition carries the new name.
C10_RenameMovesArtifact == [][C10_Rename]_vars

\* a feed was renamed and its artifact is under the new name
C10_Witness ==
    /\ ret.op = "update_feed_data"
    /\ ret.out = "ok"
    /\ ret.new_name \in Names \ {ret.name}
    /\ files[ret.new_name].exists
    /\ files[ret.new_name].title = ret.name

C11_Collision ==
    (/\ ret'.op = "update_feed_data"
     /\ ret'.name \in StoredNames
     /\ ret'.new_name \in StoredNames \ {ret'.name})
        => /\ ret'.out = "ValueError: existiert bereits"
           /\ db' = db
           /\ files' = files

\* C11: update_feed_data with a new name that another stored definition
\* carries is rejected with the validation error, and the stored list and
\* every artifact are exactly as before the call.
C11_RenameCollisionRejected == [][C11_Collision]_vars

\* the rename was rejected while both definitions have their artifact
C11_Witness ==
    /\ ret.op = "update_feed_data"
    /\ ret.out = "ValueError: existiert bereits"
    /\ files[ret.name].exists
    /\ files[ret.new_name].exists

(***************************************************************************)
(* fetch_articles.  A page is what BeautifulSoup finds in it: the elements *)
(* soup.select returns per selector, the time elements, the links with a   *)
(* datetime attribute and all links, each in document order.  An element   *)
(* is the length of its title text, the length of its whole text and its   *)
(* href; a relative href is the path of the element it stands in, so two   *)
(* elements share an href only where the page repeats a link.  An href of  *)
(* kind "rel" starts with a slash, one of kind "bare" is relative without  *)
(* it ("story.html"), one of kind "abs" starts with the site it names and  *)
(* an element of kind "none" has no href (its path names the element).    *)
(***************************************************************************)
ManyElements == 51

FetchLimit == 50
LinkScanLimit == 300
TitleLimit == 200
ContentLimit == 500

\* s[:n]
Take(s, n) == SubSeq(s, 1, Min(n, Len(s)))

Element(list, i, good) ==
    [title |-> IF good THEN 20 ELSE 3,
     text |-> IF good THEN 600 ELSE 3,
     href |-> [kind |-> "rel", path |-> <<list, i>>]]

\* n elements of one list: all with a title, only the last with a title, or
\* all with a title and all with the href of the first
ElementList(list, n, pattern) ==
    [i \in 1..n |->
        IF pattern = "repeated" THEN Element(list, 1, TRUE)
        ELSE Element(list, i, pattern = "all" \/ i = n)]

ElementLists(list) ==
    {<<>>, ElementList(list, 1, "all"), ElementList(list, ManyElements, "all"),
     ElementList(list, ManyElements, "last")}

PageSite == "https://a.example"

\* the sites an absolute href of the page names
LinkSites == [site |-> PageSite, prefix |-> "https://a.example.evil.test",
              other |-> "https://other.test"]

LongText == 600
ShortText == 14

ElementKinds == {"long", "short", "bare", "none", "site", "prefix", "other"}

\* one element of its own kind: a text of 600 characters, a link text of 14,
\* an href without the leading slash, no href, or an absolute href
SpecialElement(list, kind) ==
    [title |-> IF kind = "long" THEN LongText ELSE IF kind = "short" THEN ShortText ELSE 20,
     text |-> IF kind = "short" THEN ShortText ELSE LongText,
     href |-> IF kind = "bare" THEN [kind |-> "bare", path |-> <<list, 1>>]
              ELSE IF kind = "none" THEN [kind |-> "none", path |-> <<list, 1>>]
              ELSE IF kind \in DOMAIN LinkSites
              THEN [kind |-> "abs", base |-> LinkSites[kind], sep |-> "/",
                    path |-> <<list, 1>>, by |-> "page"]
              ELSE [kind |-> "rel", path |-> <<list, 1>>]]

SpecialLists(list) == {<<SpecialElement(list, kind)>> : kind \in ElementKinds}

CustomSelector == ".item"

\* the selectors of strategy 4, in the order of the source
selectors ==
    <<".article-list-item", ".blog-item", ".news-item", ".post-item",
      ".entry-item", "article", ".entry", ".post">>

AllSelectors == {CustomSelector} \cup {selectors[i] : i \in 1..Len(selectors)}

\* the pages with one element, of one of the kinds, in this list
SpecialPages(list) ==
    {[select |-> [sel \in AllSelectors |-> IF sel = list THEN special ELSE <<>>],
      times |-> IF list = "time" THEN special ELSE <<>>,
      dated |-> IF list = "dated" THEN special ELSE <<>>,
      links |-> IF list = "link" THEN special ELSE <<>>] :
        special \in SpecialLists(list)}

\* the pages a fetch with this css_selector is tried on
Documents(css_selector) ==
    {[select |-> [sel \in AllSelectors |->
                    IF sel = CustomSelector THEN custom
                    ELSE IF sel = ".news-item" THEN news
                    ELSE IF sel = "article" THEN arts
                    ELSE <<>>],
      times |-> times,
      dated |-> dated,
      links |-> links] :
        custom \in IF css_selector = CustomSelector THEN ElementLists("custom") ELSE {<<>>},
        news \in ElementLists("news"),
        arts \in ElementLists("article"),
        times \in ElementLists("time"),
        dated \in ElementLists("dated"),
        links \in ElementLists("link") \cup {ElementList("link", 2, "repeated")}}
    \cup
    UNION {SpecialPages(list) :
             list \in {"article", "time", "dated", "link"}
                      \cup (IF css_selector = CustomSelector THEN {CustomSelector} ELSE {})}

\* text.startswith(prefix)
StartsWith(text, prefix) ==
    Len(text) >= Len(prefix) /\ SubSeq(text, 1, Len(prefix)) = prefix

\* not href.startswith("http"), href not empty
Relative(href) == href.kind \in {"rel", "bare"}

\* href = url.rstrip("/") + href
\* href = url.rstrip("/") + href: a slash stands between the two where the
\* href brings it
Prefixed(url, href) ==
    [kind |-> "abs", base |-> url, sep |-> IF href.kind = "rel" THEN "/" ELSE "",
     path |-> href.path, by |-> "prefix"]

urljoin(base_url, href) ==
    [kind |-> "abs", base |-> base_url, sep |-> "/", path |-> href.path, by |-> "urljoin"]

\* extract_article returns a dict for this element
HasArticle(element) == element.title >= 5

extract_article(element, base_url) ==
    [title |-> element.title,
     url |-> IF Relative(element.href) THEN urljoin(base_url, element.href)
             ELSE element.href,
     content |-> Min(element.text, ContentLimit)]

\* the loop over elements[:50] of strategies 1 and 4
SelectedArticles(elements, url) ==
    LET good == SelectSeq(Take(elements, FetchLimit), HasArticle)
    IN [i \in 1..Len(good) |-> extract_article(good[i], url)]

\* the loops of strategies 2 and 3: a link with a title of more than 10
\* characters
DatedArticle(link, url) ==
    [title |-> Min(link.title, TitleLimit),
     url |-> IF Relative(link.href) THEN Prefixed(url, link.href) ELSE link.href,
     content |-> link.title]

DatedArticles(elements, url) ==
    LET good == SelectSeq(Take(elements, FetchLimit),
                          LAMBDA e : e.href.kind # "none" /\ e.title > 10)
    IN [i \in 1..Len(good) |-> DatedArticle(good[i], url)]

\* strategy 4: the articles list after the loop over the selectors, which
\* returns at the first selector that leaves it non-empty
RECURSIVE ListArticles(_, _, _, _)
ListArticles(doc, url, sels, articles) ==
    IF sels = <<>> THEN articles
    ELSE LET found == articles \o SelectedArticles(doc.select[Head(sels)], url)
         IN IF found # <<>> THEN found
            ELSE ListArticles(doc, url, Tail(sels), found)

\* strategy 5: the loop over all_links[:300], seen the hrefs already taken
RECURSIVE LinkScan(_, _, _)
LinkScan(links, url, seen) ==
    IF links = <<>> THEN <<>>
    ELSE LET link == Head(links)
             href == IF link.href.kind = "rel" THEN Prefixed(url, link.href)
                     ELSE link.href
             skipped == \/ link.href.kind = "none"
                        \/ link.title < 15
                        \/ link.href.kind = "bare"
                        \/ link.href.kind = "abs"
                             /\ ~StartsWith(link.href.base \o link.href.sep, url)
                        \/ href \in seen
         IN IF skipped THEN LinkScan(Tail(links), url, seen)
            ELSE <<[title |-> Min(link.title, TitleLimit),
                    url |-> href,
                    content |-> link.title]>>
                 \o LinkScan(Tail(links), url, seen \cup {href})

\* css_selector and css_selector.strip()
Blank(css_selector) == css_selector \in {"", " "}

\* fetch_articles whose last statement is "return articles"
fetch_articles_uncut(doc, url, css_selector) ==
    LET s1 == IF Blank(css_selector) THEN <<>>
              ELSE SelectedArticles(doc.select[css_selector], url)
        s2 == s1 \o DatedArticles(doc.times, url)
        s3 == s2 \o DatedArticles(doc.dated, url)
        s4 == ListArticles(doc, url, selectors, s3)
        s5 == s4 \o LinkScan(Take(doc.links, LinkScanLimit), url, {})
    IN IF s1 # <<>> THEN s1
       ELSE IF s2 # <<>> THEN Take(s2, FetchLimit)
       ELSE IF s3 # <<>> THEN Take(s3, FetchLimit)
       ELSE IF s4 # <<>> THEN s4
       ELSE s5

\* fetch_articles without the return of strategy 1: the articles of the
\* custom selector stay in the list the next strategy appends to
fetch_articles_mixing(doc, url, css_selector) ==
    LET s1 == IF Blank(css_selector) THEN <<>>
              ELSE SelectedArticles(doc.select[css_selector], url)
        s2 == s1 \o DatedArticles(doc.times, url)
        s3 == s2 \o DatedArticles(doc.dated, url)
        s4 == ListArticles(doc, url, selectors, s3)
        s5 == s4 \o LinkScan(Take(doc.links, LinkScanLimit), url, {})
    IN IF s2 # <<>> THEN Take(s2, FetchLimit)
       ELSE IF s3 # <<>> THEN Take(s3, FetchLimit)
       ELSE IF s4 # <<>> THEN s4
       ELSE Take(s5, FetchLimit)

\* the body of fetch_articles on the page the request returned; s1..s5 is
\* the articles list after each strategy
fetch_articles(doc, url, css_selector) ==
    LET s1 == IF Blank(css_selector) THEN <<>>
              ELSE SelectedArticles(doc.select[css_selector], url)
        s2 == s1 \o DatedArticles(doc.times, url)
        s3 == s2 \o DatedArticles(doc.dated, url)
        s4 == ListArticles(doc, url, selectors, s3)
        s5 == s4 \o LinkScan(Take(doc.links, LinkScanLimit), url, {})
    IN IF s1 # <<>> THEN s1
       ELSE IF s2 # <<>> THEN Take(s2, FetchLimit)
       ELSE IF s3 # <<>> THEN Take(s3, FetchLimit)
       ELSE IF s4 # <<>> THEN s4
       ELSE Take(s5, FetchLimit)

(***************************************************************************)
(* The retry decorator of fetch_articles: stop_after_attempt(3), every     *)
(* exception retried, RetryError raised once the stop condition holds.     *)
(* An exception is its class, the classifier's markers in the class name,  *)
(* the length of the class name and its message.                           *)
(***************************************************************************)
RequestErrors ==
    {[class |-> "ConnectionError", markers |-> {"ConnectionError"}, len |-> 15,
      text |-> "HTTPSConnectionPool(host='a.example', port=443): Max retries exceeded"],
     [class |-> "HTTPError", markers |-> {"HTTPError"}, len |-> 9,
      text |-> "404 Client Error: Not Found for url: https://a.example"],
     [class |-> "ReadTimeout", markers |-> {"Timeout"}, len |-> 11,
      text |-> "HTTPSConnectionPool(host='a.example', port=443): Read timed out."]}

\* RetryError(last_attempt); str() of it names the class of the exception
\* the last attempt raised
RetryError(e) ==
    LET text == "RetryError[<Future at 0x7f state=finished raised " \o e.class \o ">]"
    IN [markers |-> {"RetryError"} \cup e.markers,
        text |-> text,
        len |-> 51 + e.len,
        head |-> text,
        last_attempt |-> e]

StopAfterAttempt == 3

\* a decorator that gives up after the fourth attempt
stop_after_four(attempt_number) == attempt_number >= StopAfterAttempt + 1

stop_after_attempt(attempt_number) == attempt_number >= StopAfterAttempt

FetchSelectors == {"", " ", CustomSelector}

NoDocument == [select |-> <<>>, times |-> <<>>, dated |-> <<>>, links |-> <<>>]

\* a fetch_articles call is between two attempts
Running == ret.op = "fetch_articles" /\ ret.state = "running"

lib_vars == <<db, files, ua_pc, ua_feeds, ua_env, results, uf>>

\* a call that has not started: the function and its arguments
Pending(fn) == ret.op = "call" /\ ret.fn = fn

FetchCalls ==
    {[op |-> "call", fn |-> "fetch_articles", url |-> url, css_selector |-> css_selector] :
        url \in Urls, css_selector \in FetchSelectors}

FetchArticles ==
    /\ Pending("fetch_articles")
    /\ ret' = [op |-> "fetch_articles", state |-> "running", attempt |-> 0,
               failures |-> 0, url |-> ret.url, css_selector |-> ret.css_selector,
               last |-> NoError, doc |-> NoDocument, out |-> <<>>]
    /\ UNCHANGED lib_vars

\* one attempt raises: requests.get, raise_for_status or the parser
FetchAttemptRaises ==
    /\ Running
    /\ \E e \in RequestErrors :
        ret' = IF stop_after_attempt(ret.attempt + 1)
               THEN [ret EXCEPT !.attempt = @ + 1, !.failures = @ + 1, !.last = e,
                                !.state = "raised", !.out = RetryError(e)]
               ELSE [ret EXCEPT !.attempt = @ + 1, !.failures = @ + 1, !.last = e]
    /\ UNCHANGED lib_vars

\* one attempt gets a page and runs the strategies on it
FetchAttemptReturns ==
    /\ Running
    /\ \E doc \in Documents(ret.css_selector) :
        ret' = [ret EXCEPT !.attempt = @ + 1, !.doc = doc, !.state = "returned",
                           !.out = fetch_articles(doc, ret.url, ret.css_selector)]
    /\ UNCHANGED lib_vars

(***************************************************************************)
(* generate_rss on article lists of up to ManyArticles articles: complete  *)
(* articles, articles without a title, articles without a url.             *)
(***************************************************************************)
ManyArticles == 32

ArticleOf(i, kind) ==
    [Article(i) EXCEPT !.title = IF kind = "untitled" THEN "" ELSE @,
                       !.url = IF kind = "unlinked" THEN "" ELSE @]

ArticleLists ==
    {[i \in 1..n |-> ArticleOf(i, kind)] :
        n \in 0..ManyArticles, kind \in {"full", "untitled", "unlinked"}}

RssFeeds ==
    {NewFeed(name, url, "", description, now) :
        name \in Names, url \in Urls, description \in {"", "News"}, now \in Times}

RssCalls ==
    {[op |-> "call", fn |-> "generate_rss", feed |-> feed, articles |-> articles] :
        feed \in RssFeeds, articles \in ArticleLists}

GenerateRss ==
    /\ Pending("generate_rss")
    /\ ret' = [op |-> "generate_rss", feed |-> ret.feed, articles |-> ret.articles,
               out |-> RssDocument(ret.feed, ret.articles)]
    /\ UNCHANGED lib_vars

(***************************************************************************)
(* parse_error_message on every text: cause is an exception whose text     *)
(* holds the markers of one subset of Markers (a text with "SSLError"      *)
(* holds "SSL"), and Wrapped(cause) the same text inside "RetryError[..]". *)
(***************************************************************************)
MarkerOrder ==
    <<"ConnectionError", "SSLError", "SSL", "HTTPError", "404", "401", "403",
      "500", "502", "503", "504", "Timeout", "timed out", "MissingSchema">>

Markers == {MarkerOrder[i] : i \in 1..Len(MarkerOrder)}

MarkerSets == {M \in SUBSET Markers : "SSLError" \in M => "SSL" \in M}

\* a text with exactly these markers
RECURSIVE TextOf(_, _)
TextOf(M, i) ==
    IF i > Len(MarkerOrder) THEN "error"
    ELSE IF MarkerOrder[i] \in M THEN MarkerOrder[i] \o " " \o TextOf(M, i + 1)
    ELSE TextOf(M, i + 1)

\* the exception with this text; head stands for str(e)[:100] of a text of
\* more than 100 characters
ErrorOf(markers, text) ==
    [markers |-> markers,
     text |-> text,
     len |-> Len(text),
     head |-> IF Len(text) <= ErrorTextLimit THEN text ELSE "<the first 100 characters>"]

Wrapped(cause) ==
    ErrorOf(cause.markers \cup {"RetryError"}, "RetryError[" \o cause.text \o "]")

\* cause is e without its wrapper, e itself where e has none
ClassifierCalls ==
    {[op |-> "call", fn |-> "parse_error_message", cause |-> ErrorOf(M, TextOf(M, 1)),
      e |-> IF wrapped THEN Wrapped(ErrorOf(M, TextOf(M, 1))) ELSE ErrorOf(M, TextOf(M, 1))] :
        M \in MarkerSets, wrapped \in BOOLEAN}

ParseErrorMessage ==
    /\ Pending("parse_error_message")
    /\ ret' = [op |-> "parse_error_message", e |-> ret.e, cause |-> ret.cause,
               out |-> parse_error_message(ret.e)]
    /\ UNCHANGED lib_vars

(***************************************************************************)
(* discover_rss_feeds.  The url argument is a scheme (or none), a host and *)
(* a path; urlparse raises ValueError on a host with an unmatched bracket. *)
(* The page is its <link> elements of type rss/atom and its anchors; feed  *)
(* says whether one of the feed patterns matches the anchor's href.        *)
(***************************************************************************)
ManyLinks == 11

DiscoverLimit == 10

UrlParts ==
    {[scheme |-> scheme, host |-> host, path |-> path] :
        scheme \in {"", "http://", "https://"},
        host \in {"a.example", "www.a.example", "[a.example"},
        path \in {"", "/"}}

UrlText(u) == u.scheme \o u.host \o u.path

DiscoverUrls == {UrlText(u) : u \in UrlParts}

\* the scheme, host and path of this text
Parts(url) == CHOOSE u \in UrlParts : UrlText(u) = url

\* url = "https://" + url unless it starts with http:// or https://
WithScheme(u) == IF u.scheme = "" THEN [u EXCEPT !.scheme = "https://"] ELSE u

\* urlparse(url) raises "Invalid IPv6 URL"
InvalidNetloc(u) == u.host = "[a.example"

\* parsed.netloc.replace("www.", "")
Domain(u) == IF u.host = "www.a.example" THEN "a.example" ELSE u.host

\* url.rstrip("/")
BaseUrl(u) == u.scheme \o u.host

HeadLinks(n, kind) ==
    [i \in 1..n |->
        [href |-> IF kind = "none" THEN ""
                  ELSE IF kind = "abs" THEN "https://a.example/rss/" \o ToString(i)
                  ELSE "/rss/" \o ToString(i),
         abs |-> kind = "abs",
         title |-> "Feed " \o ToString(i)]]

Anchors(n, kind) ==
    [i \in 1..n |->
        [href |-> IF kind = "other" THEN "/about/" \o ToString(i)
                  ELSE IF kind = "same" THEN "/rss/" \o ToString(i)
                  ELSE "/feed/" \o ToString(i),
         abs |-> FALSE,
         feed |-> kind # "other",
         text |-> IF i = 1 THEN "" ELSE "Link " \o ToString(i)]]

DiscoverPages ==
    {[raises |-> FALSE, head |-> head, anchors |-> anchors] :
        head \in {<<>>} \cup {HeadLinks(n, kind) : n \in {1, ManyLinks},
                                                  kind \in {"none", "abs", "rel"}},
        anchors \in {<<>>} \cup {Anchors(n, kind) : n \in {1, ManyLinks},
                                                   kind \in {"other", "same", "feed"}}}

\* requests.get raises
NoPage == [raises |-> TRUE, head |-> <<>>, anchors |-> <<>>]

Resolved(link, base_url) == IF link.abs THEN link.href ELSE base_url \o link.href

\* the loop over the <link> elements
RECURSIVE HeadFeeds(_, _)
HeadFeeds(links, base_url) ==
    IF links = <<>> THEN <<>>
    ELSE IF Head(links).href = "" THEN HeadFeeds(Tail(links), base_url)
    ELSE <<[url |-> Resolved(Head(links), base_url), title |-> Head(links).title,
            type |-> "rss", source |-> "head"]>>
         \o HeadFeeds(Tail(links), base_url)

\* the loop over the anchors, feeds the list so far
RECURSIVE AnchorFeeds(_, _, _)
AnchorFeeds(anchors, base_url, feeds) ==
    IF anchors = <<>> THEN feeds
    ELSE LET a == Head(anchors)
             href == Resolved(a, base_url)
         IN IF a.feed /\ href \notin {feeds[i].url : i \in 1..Len(feeds)}
            THEN AnchorFeeds(Tail(anchors), base_url,
                             Append(feeds, [url |-> href,
                                            title |-> OrElse(a.text, "RSS Feed"),
                                            type |-> "rss", source |-> "link"]))
            ELSE AnchorFeeds(Tail(anchors), base_url, feeds)

Fallback(u) ==
    [url |-> UrlText(u), title |-> Domain(u), type |-> "scrape", source |-> "fallback"]

discover_rss_feeds(url, page) ==
    LET u == WithScheme(Parts(url))
        found == AnchorFeeds(page.anchors, BaseUrl(u), HeadFeeds(page.head, BaseUrl(u)))
        feeds == IF page.raises \/ found = <<>> THEN <<Fallback(u)>> ELSE found
    IN IF InvalidNetloc(u)
       THEN [raised |-> TRUE, feeds |-> <<>>]
       ELSE [raised |-> FALSE, feeds |-> Take(feeds, DiscoverLimit)]

DiscoverCalls ==
    {[op |-> "call", fn |-> "discover_rss_feeds", url |-> url, page |-> page] :
        url \in DiscoverUrls, page \in DiscoverPages \cup {NoPage}}

DiscoverRssFeeds ==
    /\ Pending("discover_rss_feeds")
    /\ LET r == discover_rss_feeds(ret.url, ret.page)
       IN ret' = [op |-> "discover_rss_feeds", url |-> ret.url, page |-> ret.page,
                  raised |-> r.raised, out |-> r.feeds]
    /\ UNCHANGED lib_vars

(***************************************************************************)
(* generate_opml and parse_opml.  A text is the sequence of its pieces: a  *)
(* single character, or a run of characters none of which the two          *)
(* functions look at.  The OPML text is the sequence of its outline tags,  *)
(* each with its attribute values as written between the quotes.           *)
(***************************************************************************)
SlugLimit == 50

NameChars == {"a", "B", " ", "&"}

OpmlNames == {<<c>> : c \in NameChars} \cup {<<c, d>> : c, d \in NameChars}

OpmlUrls ==
    {<<"https://a.example">>, <<"https://b.example/?x=1&y=2">>,
     <<"https://c.example/", "\"", "c">>, <<>>}

OpmlFeeds ==
    {[name |-> name, url |-> url, description |-> description] :
        name \in OpmlNames, url \in OpmlUrls, description \in {"", "News"}}

\* the lists of at most two feeds with different names
OpmlFeedLists ==
    {<<>>} \cup {<<f>> : f \in OpmlFeeds}
    \cup {fg \in OpmlFeeds \X OpmlFeeds : fg[1].name # fg[2].name}

EscapedChar(c) ==
    IF c = "&" THEN <<"&", "a", "m", "p", ";">>
    ELSE IF c = "<" THEN <<"&", "l", "t", ";">>
    ELSE IF c = ">" THEN <<"&", "g", "t", ";">>
    ELSE IF c = "\"" THEN <<"&", "q", "u", "o", "t", ";">>
    ELSE IF c = "'" THEN <<"&", "a", "p", "o", "s", ";">>
    ELSE <<c>>

RECURSIVE escape_xml(_)
escape_xml(text) ==
    IF text = <<>> THEN <<>>
    ELSE EscapedChar(Head(text)) \o escape_xml(Tail(text))

\* feed.get("description", "Unkategorisiert") or "Unkategorisiert"
Category(feed) == IF feed.description = "" THEN "Unkategorisiert" ELSE feed.description

\* the keys of the categories dict, in the order of their first feed
RECURSIVE Categories(_, _)
Categories(feeds, seen) ==
    IF feeds = <<>> THEN <<>>
    ELSE IF Category(Head(feeds)) \in seen THEN Categories(Tail(feeds), seen)
    ELSE <<Category(Head(feeds))>>
         \o Categories(Tail(feeds), seen \cup {Category(Head(feeds))})

FeedOutline(feed, base_url) ==
    [kind |-> "feed",
     text |-> escape_xml(feed.name),
     htmlUrl |-> feed.url,
     xmlUrl |-> <<base_url, "/feed/">> \o feed.name \o <<".xml">>]

CategoryOutline(category) ==
    [kind |-> "category", text |-> escape_xml(<<category>>), htmlUrl |-> <<>>, xmlUrl |-> <<>>]

RECURSIVE CategoryOutlines(_, _, _)
CategoryOutlines(categories, feeds, base_url) ==
    IF categories = <<>> THEN <<>>
    ELSE LET cat_feeds == SelectSeq(feeds, LAMBDA f : Category(f) = Head(categories))
         IN <<CategoryOutline(Head(categories))>>
            \o [i \in 1..Len(cat_feeds) |-> FeedOutline(cat_feeds[i], base_url)]
            \o CategoryOutlines(Tail(categories), feeds, base_url)

generate_opml(feeds, base_url) ==
    CategoryOutlines(Categories(feeds, {}), feeds, base_url)

\* ([^"]*) : the pieces before the first quote
RECURSIVE UpToQuote(_)
UpToQuote(text) ==
    IF text = <<>> \/ Head(text) = "\"" THEN <<>>
    ELSE <<Head(text)>> \o UpToQuote(Tail(text))

\* <outline[^>]*\sxmlUrl="([^"]+)"[^>]*/?> matches the tag: it has the
\* attribute, no ">" before it, and a value of one character at least
Matched(tag) ==
    /\ tag.kind = "feed"
    /\ \A i \in 1..Len(tag.text \o tag.htmlUrl) : (tag.text \o tag.htmlUrl)[i] # ">"
    /\ UpToQuote(tag.xmlUrl) # <<>>

Lower(c) == IF c = "B" THEN "b" ELSE c

IsAlnum(c) == c \in {"a", "b", "B", "c", "g", "l", "m", "o", "p", "q", "s", "t", "u"}

\* name.lower().replace(" ", "-").replace("/", "-"), then the characters
\* that are alphanumeric, "-" or "_"
RECURSIVE Slug(_)
Slug(name) ==
    IF name = <<>> THEN <<>>
    ELSE LET c == IF Head(name) \in {" ", "/"} THEN "-" ELSE Lower(Head(name))
         IN (IF IsAlnum(c) \/ c \in {"-", "_"} THEN <<c>> ELSE <<>>) \o Slug(Tail(name))

\* the feed parse_opml appends for the xmlUrl value xml_url
ParsedFeed(opml, xml_url) ==
    LET hits == {i \in 1..Len(opml) : Matched(opml[i]) /\ UpToQuote(opml[i].xmlUrl) = xml_url}
        full_match == opml[CHOOSE i \in hits : \A j \in hits : i <= j]
        html_url == UpToQuote(full_match.htmlUrl)
    IN [name |-> Take(Slug(UpToQuote(full_match.text)), SlugLimit),
        url |-> IF html_url # <<>> THEN html_url ELSE xml_url,
        css_selector |-> "",
        description |-> "Importiert aus OPML"]

parse_opml(opml) ==
    LET matches == SelectSeq(opml, Matched)
    IN [i \in 1..Len(matches) |-> ParsedFeed(opml, UpToQuote(matches[i].xmlUrl))]

OpmlCalls ==
    {[op |-> "call", fn |-> "parse_opml", feeds |-> feeds, base_url |-> "http://localhost:5000"] :
        feeds \in OpmlFeedLists}

\* parse_opml(generate_opml(feeds, base_url))
ParseGeneratedOpml ==
    /\ Pending("parse_opml")
    /\ ret' = [op |-> "parse_opml", feeds |-> ret.feeds, base_url |-> ret.base_url,
               opml |-> generate_opml(ret.feeds, ret.base_url),
               out |-> parse_opml(generate_opml(ret.feeds, ret.base_url))]
    /\ UNCHANGED lib_vars

(***************************************************************************)
(* The bulk handlers of the API: create_bulk_feeds, import_opml and        *)
(* bulk_refresh.  Each is one call on the store: a handler is a coroutine  *)
(* that does not yield inside its loop.  import_opml runs its loop on the  *)
(* list parse_opml returned for the request body.                          *)
(***************************************************************************)
ManyItems == 12

DetailLimit == 10

\* the part of a text after its first n characters
Drop(text, n) == SubSeq(text, n + 1, Len(text))

\* scraper.normalize_url, on lower-case https URLs: the host without its
\* "www." and the path without its trailing slash, "/" alone being kept
normalize_url(url) ==
    IF url = "" THEN ""
    ELSE LET scheme == "https://"
             rest == Drop(url, Len(scheme))
             plain == IF StartsWith(rest, "www.") THEN Drop(rest, 4) ELSE rest
             n == Len(plain)
             in_path == \E i \in 1..(n - 1) : SubSeq(plain, i, i) = "/"
         IN scheme \o (IF n > 0 /\ SubSeq(plain, n, n) = "/" /\ in_path
                       THEN SubSeq(plain, 1, n - 1) ELSE plain)

\* three spellings of one address
Spelling(i) ==
    IF i % 3 = 1 THEN "https://a.example/same"
    ELSE IF i % 3 = 2 THEN "https://www.a.example/same"
    ELSE "https://a.example/same/"

\* the feeds of a request: n items of one name with n addresses, n items
\* with one address, spelled three ways, or one item of each name
Items(n, pattern) ==
    [i \in 1..n |->
        [name |-> IF pattern = "same-name" \/ i % 2 = 1 THEN "alpha" ELSE "beta",
         url |-> IF pattern = "same-url" THEN Spelling(i)
                 ELSE "https://a.example/" \o ToString(i)]]

ItemLists ==
    {Items(n, pattern) : n \in {1, 3, ManyItems}, pattern \in {"same-name", "same-url", "each"}}

\* scraper.add_feed(name, url, "", "") on the loaded list feeds
AddFeedTo(feeds, item, now) ==
    IF Indexes(feeds, item.name) # {}
    THEN [raised |-> TRUE, feeds |-> feeds]
    ELSE [raised |-> FALSE, feeds |-> Append(feeds, NewFeed(item.name, item.url, "", "", now))]

\* the for loop of create_bulk_feeds and of import_opml.  s holds the store
\* and the locals existing_urls, results, errors and skipped; reason is the
\* text for an address that an earlier item of the request brought
RECURSIVE ImportLoop(_, _, _, _)
ImportLoop(items, s, reason, now) ==
    IF items = <<>> THEN s
    ELSE LET feed == Head(items)
             normalized_url == normalize_url(feed.url)
             added == AddFeedTo(s.db, feed, now)
             next ==
                IF normalized_url \in s.existing_urls
                THEN [s EXCEPT !.skipped = Append(@, [name |-> feed.name, url |-> feed.url,
                                                      reason |-> "URL existiert bereits"])]
                ELSE IF \E i \in 1..Len(s.results) :
                            normalize_url(s.results[i].url) = normalized_url
                THEN [s EXCEPT !.skipped = Append(@, [name |-> feed.name, url |-> feed.url,
                                                      reason |-> reason])]
                ELSE IF added.raised
                THEN [s EXCEPT !.errors = Append(@, [name |-> feed.name,
                                                     error |-> "Feed '" \o feed.name
                                                               \o "' existiert bereits"])]
                ELSE [s EXCEPT !.db = added.feeds,
                               !.results = Append(@, added.feeds[Len(added.feeds)]),
                               !.existing_urls = @ \cup {normalized_url}]
         IN ImportLoop(Tail(items), next, reason, now)

\* the locals before the loop
Loaded(feeds) ==
    [db |-> feeds,
     existing_urls |-> {normalize_url(feeds[i].url) : i \in 1..Len(feeds)},
     results |-> <<>>, errors |-> <<>>, skipped |-> <<>>]

CreateBulkFeeds ==
    \E items \in ItemLists, now \in Times :
        LET s == ImportLoop(items, Loaded(db), "Doppelte URL in Eingabe", now) IN
        /\ db' = s.db
        /\ ret' = [op |-> "create_bulk_feeds", items |-> items, status |-> "completed",
                   created |-> Len(s.results), errors |-> Len(s.errors),
                   skipped |-> Len(s.skipped),
                   skipped_details |-> Take(s.skipped, DetailLimit),
                   feeds |-> s.results,
                   error_details |-> s.errors]
        /\ UNCHANGED <<files, ua_vars>>

\* content is the request body, parsed_feeds what parse_opml makes of it
ImportOpml ==
    \E content \in {"", "<opml>"}, parsed_feeds \in ItemLists \cup {<<>>}, now \in Times :
        /\ content = "" => parsed_feeds = <<>>
        /\ IF content = ""
           THEN /\ ret' = [op |-> "import_opml", items |-> parsed_feeds, status |-> "error",
                           error |-> "No content received"]
                /\ UNCHANGED db
           ELSE IF parsed_feeds = <<>>
           THEN /\ ret' = [op |-> "import_opml", items |-> parsed_feeds, status |-> "error",
                           error |-> "No feeds found in OPML"]
                /\ UNCHANGED db
           ELSE LET s == ImportLoop(parsed_feeds, Loaded(db), "Doppelte URL in OPML", now) IN
                /\ db' = s.db
                /\ ret' = [op |-> "import_opml", items |-> parsed_feeds, status |-> "completed",
                           imported |-> Len(s.results), errors |-> Len(s.errors),
                           skipped |-> Len(s.skipped),
                           skipped_details |-> Take(s.skipped, DetailLimit),
                           error_details |-> Take(s.errors, DetailLimit)]
        /\ UNCHANGED <<files, ua_vars>>

\* the for loop of bulk_refresh: s holds the store, the results list and,
\* per name, how the update_feed call ended
RECURSIVE RefreshLoop(_, _, _, _)
RefreshLoop(feed_names, outcomes, s, now) ==
    IF feed_names = <<>> THEN s
    ELSE LET name == Head(feed_names)
             r == update_feed(s.db, s.files, name, Head(outcomes), now)
             entry == IF r.raised THEN ErrorResult(name)
                      ELSE [name |-> name, status |-> "success",
                            articles |-> r.feed.article_count]
         IN RefreshLoop(Tail(feed_names), Tail(outcomes),
                        [db |-> r.db, files |-> r.files,
                         results |-> Append(s.results, entry),
                         ended |-> Append(s.ended, IF r.raised THEN "raised"
                                                   ELSE r.feed.last_status)],
                        now)

\* one name, or two different names in either order
NameLists == {<<n>> : n \in Names} \cup {nm \in Names \X Names : nm[1] # nm[2]}

BulkRefresh ==
    \E feed_names \in NameLists, now \in Times :
        \E outcomes \in [1..Len(feed_names) -> Outcomes] :
            LET s == RefreshLoop(feed_names, outcomes,
                                 [db |-> db, files |-> files, results |-> <<>>, ended |-> <<>>],
                                 now)
            IN
            /\ db' = s.db
            /\ files' = s.files
            /\ ret' = [op |-> "bulk_refresh", feed_names |-> feed_names,
                       ended |-> s.ended, status |-> "success", results |-> s.results]
            /\ UNCHANGED ua_vars

(***************************************************************************)
(* BulkSpec: create_bulk_feeds, import_opml and add_feed, one call at a    *)
(* time.  RefreshSpec: bulk_refresh and add_feed, one call at a time.      *)
(***************************************************************************)
NextBulk ==
    \/ AddFeed
    \/ CreateBulkFeeds
    \/ ImportOpml

BulkSpec == Init /\ [][NextBulk]_vars

NextRefresh ==
    \/ AddFeed
    \/ BulkRefresh

RefreshSpec == Init /\ [][NextRefresh]_vars

(***************************************************************************)
(* RaceSpec: update_feed on the scheduler thread, step by step, with the   *)
(* add and delete calls of the API between its steps.  load_feeds reads    *)
(* DB_FILE into a list of the call's own, fetch_articles takes its time,   *)
(* and save_feeds writes that list; no lock is held in between.            *)
(***************************************************************************)
\* save_feeds that keeps what other calls wrote since the list was loaded:
\* the file's definitions, each replaced by the list's where it has one
save_feeds_merging(current, feeds) ==
    [i \in 1..Len(current) |->
        IF FirstIndex(feeds, current[i].name) = 0 THEN current[i]
        ELSE feeds[FirstIndex(feeds, current[i].name)]]

\* the "feeds" list of DB_FILE after save_feeds(feeds), current being the
\* one before: json.dump writes the file anew
save_feeds(current, feeds) == feeds

Step(name, step, out) ==
    [op |-> "update_feed", name |-> name, caller |-> "scheduler", step |-> step,
     out |-> out, loaded |-> uf.loaded, overwritten |-> db]

\* feeds = load_feeds() and the search for the name
UpdateFeedLoad ==
    /\ uf.pc = "idle"
    /\ \E name \in Names :
        IF FirstIndex(db, name) = 0
        THEN /\ ret' = Step(name, "load", "ValueError: nicht gefunden")
             /\ UNCHANGED uf
        ELSE /\ uf' = [pc |-> "loaded", name |-> name, loaded |-> db, feeds |-> db]
             /\ ret' = Step(name, "load", "running")
    /\ UNCHANGED <<db, files, ua_pc, ua_feeds, ua_env, results>>

\* the try block and its except: the feed dict of the call's list gets the
\* new status, generate_rss writes the file
UpdateFeedFetch ==
    /\ uf.pc = "loaded"
    /\ \E outcome \in Outcomes, now \in Times :
        LET r == update_feed(uf.feeds, files, uf.name, outcome, now) IN
        /\ uf' = [uf EXCEPT !.pc = "fetched", !.feeds = r.db]
        /\ files' = r.files
        /\ ret' = Step(uf.name, "fetch", "running")
    /\ UNCHANGED <<db, ua_pc, ua_feeds, ua_env, results>>

\* save_feeds(feeds); return feed
UpdateFeedSave ==
    /\ uf.pc = "fetched"
    /\ db' = save_feeds(db, uf.feeds)
    /\ uf' = NoUpdate
    /\ ret' = Step(uf.name, "save", "ok")
    /\ UNCHANGED <<files, ua_pc, ua_feeds, ua_env, results>>

NextRace ==
    \/ AddFeed
    \/ DeleteFeed
    \/ UpdateFeedLoad
    \/ UpdateFeedFetch
    \/ UpdateFeedSave

RaceSpec == Init /\ [][NextRace]_vars

(***************************************************************************)
(* LibSpec: the functions of the package that do not touch the store,      *)
(* each called on one of the inputs above.                                 *)
(***************************************************************************)
LibCalls ==
    FetchCalls \cup RssCalls \cup ClassifierCalls \cup DiscoverCalls \cup OpmlCalls

LibInit ==
    /\ db = <<>>
    /\ files = [n \in Names |-> NoFile]
    /\ ua_pc = "idle"
    /\ ua_feeds = <<>>
    /\ ua_env = <<>>
    /\ results = <<>>
    /\ uf = NoUpdate
    /\ ret \in LibCalls

NextLib ==
    \/ FetchArticles
    \/ FetchAttemptRaises
    \/ FetchAttemptReturns
    \/ GenerateRss
    \/ ParseErrorMessage
    \/ DiscoverRssFeeds
    \/ ParseGeneratedOpml

LibSpec == LibInit /\ [][NextLib]_vars

FetchReturned == ret.op = "fetch_articles" /\ ret.state = "returned"

\* C12: fetch_articles never returns more than 50 articles, whatever the
\* page, the URL and the selector, and whichever strategy found them.
C12_AtMostFifty == FetchReturned => Len(ret.out) <= FetchLimit

\* the link scan found 51 articles on the page and 50 were returned
C12_Witness ==
    /\ FetchReturned
    /\ Len(ret.doc.links) = ManyElements
    /\ Len(LinkScan(ret.doc.links, ret.url, {})) = ManyElements
    /\ Len(ret.out) = FetchLimit
    /\ ret.out[1].url.path[1] = "link"

C18_Attempts ==
    ret.op = "fetch_articles" =>
        /\ ret.attempt <= 3
        /\ ret.state = "running" => ret.attempt < 3 /\ ret.failures = ret.attempt
        /\ ret.state = "returned" =>
            /\ ret.failures = ret.attempt - 1
            /\ ret.out = fetch_articles(ret.doc, ret.url, ret.css_selector)
        /\ ret.state = "raised" =>
            /\ ret.failures = 3
            /\ ret.attempt = 3
            /\ ret.last \in RequestErrors
            /\ ret.out.last_attempt = ret.last
            /\ "RetryError" \in ret.out.markers

C18_Step ==
    /\ Running /\ ret'.op = "fetch_articles" /\ ret'.failures = ret.failures + 1
            /\ ret.attempt < 2
        => ret'.state = "running"
    /\ ~Running /\ ret'.op = "fetch_articles" => Pending("fetch_articles") /\ ret'.attempt = 0

\* C18: fetch_articles makes at most 3 attempts: an attempt that raises is
\* followed by another one, the first attempt that succeeds ends the call
\* with its result, and only the third failure in a row raises RetryError,
\* which carries the exception of the last attempt.
C18_ThreeAttempts == []C18_Attempts /\ [][C18_Step]_vars

\* the third attempt raised HTTPError and the call raised RetryError
C18_Witness ==
    /\ ret.op = "fetch_articles"
    /\ ret.state = "raised"
    /\ ret.attempt = 3
    /\ ret.last.class = "HTTPError"

\* what each strategy finds on the page, taken alone
Yields(doc, url, css_selector) ==
    LET found == {i \in 1..Len(selectors) :
                    SelectedArticles(doc.select[selectors[i]], url) # <<>>}
        first == CHOOSE i \in found : \A j \in found : i <= j
    IN <<IF Blank(css_selector) THEN <<>>
         ELSE SelectedArticles(doc.select[css_selector], url),
         DatedArticles(doc.times, url),
         DatedArticles(doc.dated, url),
         IF found = {} THEN <<>> ELSE SelectedArticles(doc.select[selectors[first]], url),
         LinkScan(Take(doc.links, LinkScanLimit), url, {})>>

C19_First ==
    FetchReturned =>
        LET y == Yields(ret.doc, ret.url, ret.css_selector)
            yielding == {k \in 1..5 : y[k] # <<>>}
        IN /\ yielding = {} => ret.out = <<>>
           /\ \A k \in yielding :
                (\A j \in yielding : k <= j) => ret.out = Take(y[k], FetchLimit)
           /\ \A i, j \in 1..Len(ret.out) : ret.out[i].url.path[1] = ret.out[j].url.path[1]

\* C19: fetch_articles returns the articles of the first strategy, in the
\* order 1..5, that finds at least one, and of that strategy only; a custom
\* selector that finds none passes on to strategy 2.
C19_FirstStrategyWins == C19_First

\* the custom selector matched 51 elements without an article in the first
\* 50, and the time elements gave the result although later strategies
\* would have found articles too
C19_Witness ==
    /\ FetchReturned
    /\ ret.css_selector = CustomSelector
    /\ Len(ret.doc.select[CustomSelector]) = ManyElements
    /\ ret.out # <<>>
    /\ ret.out[1].url.path[1] = "time"
    /\ ret.doc.links # <<>>
    /\ ret.doc.dated # <<>>

C14_NeverEmpty ==
    ret.op = "generate_rss" =>
        /\ Len(ret.out.items) \in 1..30
        /\ ret.articles = <<>> =>
            /\ Len(ret.out.items) = 1
            /\ ret.out.items[1].title = "Keine Artikel gefunden"
            /\ ret.out.items[1].description
                 = "Der Feed konnte keine Artikel von der Webseite extrahieren."
            /\ ret.out.items[1].link = ret.feed.url

\* the empty list was serialized
C14_Witness ==
    /\ ret.op = "generate_rss"
    /\ ret.articles = <<>>
    /\ ret.out.exists
    /\ Len(ret.out.items) = 1

Classified == ret.op = "parse_error_message" /\ "RetryError" \in ret.e.markers

\* C15: a RetryError text whose cause text holds "404" gets the category
\* the cause text gets when classified directly, whatever other markers
\* the text holds.
C15_NotFoundSameCategory ==
    (Classified /\ "404" \in ret.cause.markers)
        => ret.out = parse_error_message(ret.cause)

\* C16: every text gets the same category with and without the RetryError
\* wrapper around it.
C16_WrappedSameCategory ==
    Classified => ret.out = parse_error_message(ret.cause)

\* no <link> with an href and no anchor a feed pattern matches, or no page
NoCandidate(page) ==
    \/ page.raises
    \/ /\ \A i \in 1..Len(page.head) : page.head[i].href = ""
       /\ \A i \in 1..Len(page.anchors) : ~page.anchors[i].feed

C17_Discovered ==
    /\ Len(ret.out) <= 10
    /\ NoCandidate(ret.page) =>
        /\ Len(ret.out) = 1
        /\ ret.out[1].url = UrlText(WithScheme(Parts(ret.url)))
        /\ ret.out[1].type = "scrape"
        /\ ret.out[1].source = "fallback"

\* C17: discover_rss_feeds never raises and returns at most 10 candidates;
\* when it found none (no autodiscovery link and no pattern anchor, or the
\* fetch failed) it returns exactly the fallback candidate: the url with
\* its scheme, type "scrape", source "fallback".
C17_DiscoveryNeverRaises ==
    ret.op = "discover_rss_feeds" => ~ret.raised /\ C17_Discovered

\* C20: for feeds with different names, parse_opml of generate_opml of them
\* gives back exactly their (name, url) pairs, the names compared after the
\* importer's slug rule and the url being the feed's source url.
C20_OpmlRoundTrip ==
    ret.op = "parse_opml" =>
        {<<ret.out[i].name, ret.out[i].url>> : i \in 1..Len(ret.out)}
            = {<<Take(Slug(ret.feeds[i].name), SlugLimit), ret.feeds[i].url>> :
                 i \in 1..Len(ret.feeds)}

(***************************************************************************)
(* The PUT /api/feeds/{feed_name} handler around update_feed_data: the     *)
(* exception class the call raised, and the HTTP status of the response.   *)
(***************************************************************************)
\* the class of the exception behind an outcome of update_feed_data
RaisedClass(out) ==
    IF out = "ValueError: nicht gefunden" THEN "ValueError"
    ELSE IF out = "ValueError: existiert bereits" THEN "ValueError"
    ELSE None

\* except ValueError as e: raise HTTPException(status_code=400, ...)
UpdateFeedDataStatus(out) == IF RaisedClass(out) = "ValueError" THEN 400 ELSE 200

C28_Unknown ==
    (ret'.op = "update_feed_data" /\ ret'.name \notin StoredNames)
        => /\ RaisedClass(ret'.out) # None
           /\ RaisedClass(ret'.out) # RaisedClass("ValueError: existiert bereits")
           /\ UpdateFeedDataStatus(ret'.out) # UpdateFeedDataStatus("ValueError: existiert bereits")

\* C28: update_feed_data of a name that is not stored ends in a not-found
\* error whose kind and whose HTTP status both differ from those of the
\* rejection of a rename collision.
C28_NotFoundDistinct == [][C28_Unknown]_vars

\* the status fields of a definition
StatusFields(feed) ==
    <<feed.created, feed.last_update, feed.last_status, feed.last_error, feed.article_count>>

C29_Frame ==
    /\ (ret'.op = "add_feed" /\ ret'.out = "ok") =>
        /\ Len(db') = Len(db) + 1
        /\ db'[Len(db')].last_update = NoTime
        /\ db'[Len(db')].last_status = None
        /\ db'[Len(db')].article_count = 0
        /\ db'[Len(db')].last_error = Absent
        /\ \A i \in 1..Len(db) : db'[i] = db[i]
    /\ ret'.op = "update_feed_data" =>
        /\ Len(db') = Len(db)
        /\ \A i \in 1..Len(db) : StatusFields(db'[i]) = StatusFields(db[i])
    /\ ret'.op = "delete_feed" =>
        \A i \in 1..Len(db') : \E j \in 1..Len(db) : db'[i] = db[j]
    /\ \A i \in 1..Len(db') : \A j \in 1..Len(db) :
        (db'[i].name = db[j].name /\ ret'.op # "add_feed") => db'[i].created = db[j].created
    /\ (ret'.op = "update_feed" /\ Len(db') = Len(db)) =>
        \A i \in 1..Len(db) : db'[i].created = db[i].created

C30_ArtifactsOfStoredFeeds == \A n \in Names : files[n].exists => n \in StoredNames

\* a refreshed feed was deleted while another one has its artifact
C30_Witness ==
    /\ ret.op = "delete_feed"
    /\ ret.out = "True"
    /\ \E n \in Names : files[n].exists
    /\ \E n \in Names : ~files[n].exists


\* the text of an HTTPError of requests with this status code and no other
\* marker: "504 Server Error: Gateway Timeout for url: ..." under its class name
HttpErrorWith(e, code) == e.markers = {"HTTPError", code}

\* C25: parse_error_message gives an HTTP error with a 5xx status code (504
\* among them) the server-error category and an HTTP error with 401 or 403
\* the access-denied category, inside a retry wrapper and without one.
C25_HttpCategories ==
    ret.op = "parse_error_message" =>
        /\ \A code \in {"500", "502", "503", "504"} :
              HttpErrorWith(ret.cause, code) => ret.out = "Serverfehler"
        /\ \A code \in {"401", "403"} :
              HttpErrorWith(ret.cause, code) => ret.out = "Zugriff verweigert (401/403)"

\* C23: every article fetch_articles returns has a title of at most 200
\* characters and a content of at most 500 characters, whichever strategy
\* found it.
C23_TitleAndContentLimits ==
    FetchReturned =>
        \A i \in 1..Len(ret.out) :
            ret.out[i].title <= TitleLimit /\ ret.out[i].content <= ContentLimit

\* the url of an article is absolute and, where the href was relative, the
\* href resolved against the page's URL
ResolvedUrl(article_url, url) ==
    /\ article_url.kind = "abs"
    /\ article_url.by # "page" => article_url.base = url /\ article_url.sep = "/"

\* C24: every article fetch_articles returns has an absolute url; a relative
\* href, with a leading slash or without one, is resolved against the page's
\* URL by every strategy and by extract_article.
C24_AbsoluteUrls ==
    FetchReturned => \A i \in 1..Len(ret.out) : ResolvedUrl(ret.out[i].url, ret.url)

\* the articles of ret.out are those of the link scan (strategy 5)
LinkScanned ==
    /\ FetchReturned
    /\ \A k \in 1..4 : Yields(ret.doc, ret.url, ret.css_selector)[k] = <<>>
    /\ Yields(ret.doc, ret.url, ret.css_selector)[5] # <<>>

\* C26: the link scan returns an article only for an anchor with a text of
\* at least 15 characters and an href of the page's own site: a link to any
\* other host is rejected, and no two returned articles have the same url.
C26_LinkScanOwnSite ==
    LinkScanned =>
        /\ \A i \in 1..Len(ret.out) :
              /\ ret.out[i].content >= 15
              /\ ret.out[i].url.base = PageSite
        /\ \A i, j \in 1..Len(ret.out) : ret.out[i].url = ret.out[j].url => i = j

BulkImported == ret.op \in {"create_bulk_feeds", "import_opml"} /\ ret.status = "completed"

\* C21: create_bulk_feeds and import_opml process every item of the request,
\* also after items that failed, and every detail list they return
\* (skipped_details, error_details) has at most 10 entries.
C21_AllItemsBoundedDetails ==
    BulkImported =>
        /\ Len(ret.items) =
              (IF ret.op = "import_opml" THEN ret.imported ELSE ret.created)
              + ret.errors + ret.skipped
        /\ Len(ret.skipped_details) <= DetailLimit
        /\ Len(ret.error_details) <= DetailLimit

\* C27: bulk_refresh has an error entry for every requested feed whose
\* refresh failed (unknown name or failed fetch), a success entry only where
\* the refresh ended with last_status "success", and an entry for every
\* requested name whatever happened to the names before it.
C27_BulkRefreshReports ==
    ret.op = "bulk_refresh" =>
        /\ Len(ret.results) = Len(ret.feed_names)
        /\ \A i \in 1..Len(ret.results) :
              /\ ret.results[i].name = ret.feed_names[i]
              /\ ret.ended[i] \in {"raised", "error"} => ret.results[i].status = "error"
              /\ ret.results[i].status = "success" => ret.ended[i] = "success"

NamesOf(feeds) == {feeds[i].name : i \in 1..Len(feeds)}

\* C22: nothing excludes two load-modify-save cycles from each other: the
\* save of an update_feed call replaces the whole collection by the list the
\* call loaded, with its own feed changed, whatever other calls stored in
\* between, and raises no error.
C22_Save ==
    (uf.pc = "fetched" /\ uf'.pc = "idle") =>
        /\ ret'.out = "ok"
        /\ Len(db') = Len(uf.loaded)
        /\ \A i \in 1..Len(db') :
              db'[i] = uf.loaded[i] \/ (db'[i].name = uf.name /\ uf.loaded[i].name = uf.name)

C22_LastSaveWins == [][C22_Save]_vars

\* beta was deleted while the refresh of alpha was in flight, and the save
\* of that refresh stored it again
C22_Witness ==
    /\ ret.op = "update_feed"
    /\ ret.step = "save"
    /\ ret.out = "ok"
    /\ \E n \in Names \ {ret.name} :
          /\ n \in NamesOf(ret.loaded)
          /\ n \notin NamesOf(ret.overwritten)
          /\ n \in StoredNames
====
